---- MODULE Spec2Model ----
(***************************************************************************)
(* Model of interactive_start_training.py: the interactive orchestrator    *)
(* (main), the credential step (get_api_token), the dataset validator      *)
(* (validate_dataset), the download supervisor (download_model) with its   *)
(* background fetch process, and the training launcher (launch_training).  *)
(*                                                                         *)
(* The orchestrator is one sequential process whose position is pc.  The   *)
(* fetch process is a second process: it exits on its own (ChildExit) at   *)
(* any moment while it runs.  The user is a third party: answers to the    *)
(* prompts are drawn with \E, and a keyboard interrupt can arrive wherever *)
(* the orchestrator blocks (a prompt, a sleep, a wait on a subprocess).    *)
(* The filesystem belongs to the environment: every os.path.exists is a    *)
(* nondeterministic answer at the moment the code asks.                    *)
(*                                                                         *)
(* Local variables of a function hold no value (<<>>, None) outside of     *)
(* the function's activation: a frame is discarded when the function       *)
(* returns or an exception unwinds it.  The variables that record what a   *)
(* call has done to the outside world (directories, log file, processes,   *)
(* printed banner) are kept: they are effects, not locals.                 *)
(***************************************************************************)
EXTENDS Integers, Sequences, FiniteSets, TLC

\* ------------------------------------------------------------------ values

None == "None"                 \* Python's None
Unset == "<unset>"             \* environment variable not present
Placeholder == "token_here"    \* literal compared in get_api_token
EnvToken == "hf_env"           \* a real credential present in the environment
TypedToken == "hf_typed"       \* a real credential typed at the prompt

\* exit codes the fetch process can end with on its own: 0..MaxExitCode
MaxExitCode == 1
ExitCodes == 0..MaxExitCode
SIGKILL == 9                   \* Popen.kill(): returncode becomes -SIGKILL

\* download_model: timeout = 10800 and time.sleep(3)
timeout == 10800
POLL_INTERVAL == 3

\* ------------------------------------------------------------- the registry

ModelKeys == {"flux", "sdxl", "wan13", "wan14b_t2v", "wan14b_i2v", "qwen", "z_image_turbo"}

MODELS ==
  [k \in ModelKeys |->
     CASE k = "flux" ->
            [name |-> "Flux", type |-> "Image",
             hf_repo |-> "black-forest-labs/FLUX.1-dev", hf_files |-> <<>>,
             local_dir |-> "/workspace/models/flux", toml |-> "flux.toml",
             training_script |-> "start_flux_training.sh",
             requires_token |-> TRUE, model_file |-> "flux1-dev.safetensors"]
       [] k = "sdxl" ->
            [name |-> "SDXL", type |-> "Image",
             hf_repo |-> "timoshishi/sdXL_v10VAEFix",
             hf_files |-> <<"sdXL_v10VAEFix.safetensors">>,
             local_dir |-> "/workspace/models", toml |-> "sdxl.toml",
             training_script |-> "start_sdxl_training.sh",
             requires_token |-> FALSE, model_file |-> "sdXL_v10VAEFix.safetensors"]
       [] k = "wan13" ->
            [name |-> "Wan 1.3B", type |-> "Video",
             hf_repo |-> "Wan-AI/Wan2.1-T2V-1.3B", hf_files |-> <<>>,
             local_dir |-> "/workspace/models/Wan/Wan2.1-T2V-1.3B",
             toml |-> "wan13_video.toml",
             training_script |-> "start_wan_t2v_13b_training.sh",
             requires_token |-> FALSE,
             model_file |-> "diffusion_pytorch_model.safetensors"]
       [] k = "wan14b_t2v" ->
            [name |-> "Wan 14B Text-To-Video", type |-> "Video",
             hf_repo |-> "Wan-AI/Wan2.1-T2V-14B", hf_files |-> <<>>,
             local_dir |-> "/workspace/models/Wan/Wan2.1-T2V-14B",
             toml |-> "wan14b_t2v.toml",
             training_script |-> "start_wan_t2v_14b_training.sh",
             requires_token |-> FALSE,
             model_file |-> "diffusion_pytorch_model.safetensors"]
       [] k = "wan14b_i2v" ->
            [name |-> "Wan 14B Image-To-Video", type |-> "Video",
             hf_repo |-> "Wan-AI/Wan2.1-I2V-14B-480P", hf_files |-> <<>>,
             local_dir |-> "/workspace/models/Wan/Wan2.1-I2V-14B-480P",
             toml |-> "wan14b_i2v.toml",
             training_script |-> "start_wan_i2v_480p_training.sh",
             requires_token |-> FALSE,
             model_file |-> "diffusion_pytorch_model.safetensors"]
       [] k = "qwen" ->
            [name |-> "Qwen Image", type |-> "Image",
             hf_repo |-> "Qwen/Qwen-Image", hf_files |-> <<>>,
             local_dir |-> "/workspace/models/Qwen-Image",
             toml |-> "qwen_toml.toml", training_script |-> None,
             requires_token |-> FALSE, model_file |-> "model.safetensors"]
       [] k = "z_image_turbo" ->
            [name |-> "Z Image Turbo", type |-> "Image",
             hf_repo |-> "Comfy-Org/z_image_turbo", hf_files |-> <<>>,
             local_dir |-> "/workspace/models/z_image",
             toml |-> "z_image_toml.toml", training_script |-> None,
             requires_token |-> FALSE, model_file |-> None]]

\* show_menu: model_map
model_map ==
  [c \in 1..7 |->
     CASE c = 1 -> "flux" [] c = 2 -> "sdxl" [] c = 3 -> "wan13"
       [] c = 4 -> "wan14b_t2v" [] c = 5 -> "wan14b_i2v"
       [] c = 6 -> "qwen" [] c = 7 -> "z_image_turbo"]

\* get_caption_mode: mode_map
mode_map ==
  [c \in 1..4 |->
     CASE c = 1 -> "images" [] c = 2 -> "videos" [] c = 3 -> "both" [] c = 4 -> "skip"]

\* Python truthiness of a string-or-None value (an unset variable reads as None)
Truthy(s) == s \notin {None, Unset, ""}

\* ------------------------------------------------------------------- state

VARIABLES
  pc,             \* position of the orchestrator
  model_key,      \* main: model_key
  token,          \* main: token
  caption_mode,   \* main: caption_mode
  environ,        \* os.environ, the three variables the program touches
  environ0,       \* os.environ as it was when the process started
  issues,         \* validate_dataset: issues
  scanned,        \* validate_dataset: the directories it has inspected
  cmd,            \* download_model: cmd
  elapsed,        \* download_model: elapsed (<<n>>; <<>> outside of the loop's frame)
  returncode,     \* download_model: process.returncode (<<>> is None)
  dest_created,   \* os.makedirs(local_dir) has run
  logs_dir,       \* NETWORK_VOLUME/logs on disk: "absent" or "present"
  model_exists,   \* what os.path.exists(model_path) answered in download_model (<<>>: not asked)
  skip_offered,   \* Confirm.ask("Skip download?") has been shown
  log_opened,     \* open(log_file, 'w') has succeeded (the log was truncated)
  spawn_count,    \* number of fetch processes spawned (Popen calls that succeeded)
  child,          \* the fetch process: "none", "running", "exited", "killed"
  child_rc,       \* its exit status as the OS holds it (<<>> while it has none)
  kill_count,     \* number of process.kill() calls
  dl_result,      \* the value download_model returned (<<>> while it has not)
  dl_outcome,     \* the return statement taken: "none", "Skipped", "Success", "Failure", "Timeout"
  cwd,            \* os.getcwd(): "start" or "diffusion_pipe"
  lt_entered,     \* launch_training has been called
  pip_runs,       \* number of dependency-refresh commands run
  slept,          \* the grace-period sleep has happened
  env,            \* launch_training: env (<<>> outside of the call)
  train,          \* the training process: [kind, state, argv, env, rc]
  banner,         \* "Training completed!" has been printed
  exc,            \* the exception being propagated ("none" when there is none)
  cause,          \* where the run's terminal exception was raised
  exit_code       \* process exit code (<<>> while the process runs)

mainvars == <<model_key, token, caption_mode, environ, environ0>>
vdvars == <<issues, scanned>>
dlvars == <<cmd, elapsed, returncode>>
dlfx == <<dest_created, logs_dir, model_exists, skip_offered, log_opened, spawn_count, kill_count,
         dl_result, dl_outcome>>

\* os.path.exists(model_path) has been evaluated in download_model
exists_checked == model_exists # <<>>
childvars == <<child, child_rc>>
ltvars == <<cwd, lt_entered, pip_runs, slept, env, train, banner>>
excvars == <<exc, cause, exit_code>>

vars == <<pc, mainvars, vdvars, dlvars, dlfx, childvars, ltvars, excvars>>

NoTrain == [kind |-> "none", state |-> "none", argv |-> <<>>, env |-> <<>>, rc |-> <<>>]

Init ==
  /\ pc = "welcome"
  /\ model_key = None
  /\ token = None
  /\ caption_mode = None
  /\ environ \in [HUGGING_FACE_TOKEN : {Unset, "", Placeholder, EnvToken},
                  NCCL_P2P_DISABLE : {Unset}, NCCL_IB_DISABLE : {Unset}]
  /\ environ0 = environ
  /\ issues = {}
  /\ scanned = {}
  /\ cmd = <<>>
  /\ elapsed = <<>>
  /\ returncode = <<>>
  /\ dest_created = FALSE
  /\ logs_dir \in {"absent", "present"}
  /\ model_exists = <<>>
  /\ skip_offered = FALSE
  /\ log_opened = FALSE
  /\ spawn_count = 0
  /\ child = "none"
  /\ child_rc = <<>>
  /\ kill_count = 0
  /\ dl_result = <<>>
  /\ dl_outcome = "none"
  /\ cwd = "start"
  /\ lt_entered = FALSE
  /\ pip_runs = 0
  /\ slept = FALSE
  /\ env = <<>>
  /\ train = NoTrain
  /\ banner = FALSE
  /\ exc = "none"
  /\ cause = "none"
  /\ exit_code = <<>>

\* ------------------------------------------------------- exceptions, frames

\* the frames of validate_dataset and download_model are discarded
DropFrames ==
  /\ issues' = {}
  /\ scanned' = {}
  /\ cmd' = <<>>
  /\ elapsed' = <<>>
  /\ returncode' = <<>>

\* raise e inside the try block of main: unwind to main's handlers
Raise(e, why) ==
  /\ pc' = "raised"
  /\ exc' = e
  /\ cause' = why
  /\ DropFrames
  /\ UNCHANGED exit_code

\* sys.exit(code) raises SystemExit(code)
SysExit(code, why) == Raise(IF code = 0 THEN "SystemExit0" ELSE "SystemExit1", why)

\* --------------------------------------------------------------------- main

\* show_welcome()
show_welcome ==
  /\ pc = "welcome"
  /\ pc' = "menu"
  /\ UNCHANGED <<mainvars, vdvars, dlvars, dlfx, childvars, ltvars, excvars>>

\* model_key = show_menu(): Prompt.ask accepts only "1".."7"
show_menu ==
  /\ pc = "menu"
  /\ \E choice \in DOMAIN model_map : model_key' = model_map[choice]
  /\ pc' = "gat_check"
  /\ UNCHANGED <<token, caption_mode, environ, environ0, vdvars, dlvars, dlfx, childvars, ltvars, excvars>>

\* get_api_token: `if token and token != 'token_here'`
TokenUsable(t) == Truthy(t) /\ t # Placeholder

\* mutant of get_api_token: the environment value is used whenever it is
\* usable, whether or not the model requires a token
get_api_token_EnvFirst ==
  /\ pc = "gat_check"
  /\ IF TokenUsable(environ.HUGGING_FACE_TOKEN)
       THEN /\ token' = environ.HUGGING_FACE_TOKEN
            /\ pc' = "caption"
       ELSE IF ~MODELS[model_key].requires_token
              THEN /\ token' = None
                   /\ pc' = "caption"
              ELSE /\ token' = token
                   /\ pc' = "gat_prompt"
  /\ UNCHANGED <<model_key, caption_mode, environ, environ0, vdvars, dlvars, dlfx, childvars, ltvars, excvars>>

\* get_api_token, up to the prompt: not required -> None; a usable environment
\* value -> that value; otherwise ask
get_api_token ==
  /\ pc = "gat_check"
  /\ IF ~MODELS[model_key].requires_token
       THEN /\ token' = None
            /\ pc' = "caption"
       ELSE IF TokenUsable(environ.HUGGING_FACE_TOKEN)
              THEN /\ token' = environ.HUGGING_FACE_TOKEN
                   /\ pc' = "caption"
              ELSE /\ token' = token
                   /\ pc' = "gat_prompt"
  /\ UNCHANGED <<model_key, caption_mode, environ, environ0, vdvars, dlvars, dlfx, childvars, ltvars, excvars>>

\* mutant of token_prompt: the empty token is not rejected
token_prompt_AcceptsEmpty ==
  /\ pc = "gat_prompt"
  /\ \E entered \in {"", TypedToken} :
       /\ environ' = [environ EXCEPT !.HUGGING_FACE_TOKEN = entered]
       /\ token' = entered
       /\ pc' = "caption"
       /\ UNCHANGED <<vdvars, dlvars, excvars>>
  /\ UNCHANGED <<model_key, caption_mode, environ0, dlfx, childvars, ltvars>>

\* get_api_token, from Prompt.ask on: an empty token exits with 1, any other is
\* stored in the environment and returned
token_prompt ==
  /\ pc = "gat_prompt"
  /\ \E entered \in {"", TypedToken} :
       IF ~Truthy(entered)
         THEN /\ SysExit(1, "empty_token")
              /\ UNCHANGED <<token, environ>>
         ELSE /\ environ' = [environ EXCEPT !.HUGGING_FACE_TOKEN = entered]
              /\ token' = entered
              /\ pc' = "caption"
              /\ UNCHANGED <<vdvars, dlvars, excvars>>
  /\ UNCHANGED <<model_key, caption_mode, environ0, dlfx, childvars, ltvars>>

\* caption_mode = get_caption_mode(): Prompt.ask accepts only "1".."4"
get_caption_mode ==
  /\ pc = "caption"
  /\ \E choice \in DOMAIN mode_map : caption_mode' = mode_map[choice]
  /\ pc' = "vd_images"
  /\ UNCHANGED <<model_key, token, environ, environ0, vdvars, dlvars, dlfx, childvars, ltvars, excvars>>

\* --------------------------------------------------------- validate_dataset

\* what a directory can look like: absent, present without a matching file,
\* present with matching files, present but os.listdir raises (a regular
\* file, no permission)
DirStates == {"missing", "empty", "files", "unreadable"}

\* the issue validate_dataset appends for a directory in state st
IssueFor(dir, st) ==
  IF st = "missing" THEN {<<dir, "not_found">>}
  ELSE IF st = "empty" THEN {<<dir, "no_files">>}
  ELSE {}

\* mutant of validate_videos: the video directory is checked in every mode
validate_videos_ScansAlways ==
  /\ pc = "vd_videos"
  /\ \E st \in DirStates :
       IF st = "unreadable"
         THEN Raise("Exception", "exception")
         ELSE /\ scanned' = scanned \cup {"video_dataset_here"}
              /\ issues' = issues \cup IssueFor("video_dataset_here", st)
              /\ pc' = "vd_gate"
              /\ UNCHANGED <<dlvars, excvars>>
  /\ UNCHANGED <<mainvars, dlfx, childvars, ltvars>>

\* "Check image dataset"
validate_images ==
  /\ pc = "vd_images"
  /\ IF caption_mode \in {"images", "both"}
       THEN \E st \in DirStates :
              IF st = "unreadable"
                THEN Raise("Exception", "exception")
                ELSE /\ scanned' = scanned \cup {"image_dataset_here"}
                     /\ issues' = issues \cup IssueFor("image_dataset_here", st)
                     /\ pc' = "vd_videos"
                     /\ UNCHANGED <<dlvars, excvars>>
       ELSE /\ pc' = "vd_videos"
            /\ UNCHANGED <<issues, scanned, dlvars, excvars>>
  /\ UNCHANGED <<mainvars, dlfx, childvars, ltvars>>

\* "Check video dataset"
validate_videos ==
  /\ pc = "vd_videos"
  /\ IF caption_mode \in {"videos", "both"}
       THEN \E st \in DirStates :
              IF st = "unreadable"
                THEN Raise("Exception", "exception")
                ELSE /\ scanned' = scanned \cup {"video_dataset_here"}
                     /\ issues' = issues \cup IssueFor("video_dataset_here", st)
                     /\ pc' = "vd_gate"
                     /\ UNCHANGED <<dlvars, excvars>>
       ELSE /\ pc' = "vd_gate"
            /\ UNCHANGED <<issues, scanned, dlvars, excvars>>
  /\ UNCHANGED <<mainvars, dlfx, childvars, ltvars>>

\* mutant of validate_gate: issues are printed but no confirmation is asked
validate_gate_NeverAsks ==
  /\ pc = "vd_gate"
  /\ pc' = "summary"
  /\ issues' = {}
  /\ scanned' = {}
  /\ UNCHANGED <<mainvars, dlvars, dlfx, childvars, ltvars, excvars>>

\* `if issues:` -> ask; otherwise return True
validate_gate ==
  /\ pc = "vd_gate"
  /\ IF issues # {}
       THEN /\ pc' = "vd_confirm"
            /\ UNCHANGED <<issues, scanned>>
       ELSE /\ pc' = "summary"
            /\ issues' = {}
            /\ scanned' = {}
  /\ UNCHANGED <<mainvars, dlvars, dlfx, childvars, ltvars, excvars>>

\* Confirm.ask("Continue anyway?"): no -> sys.exit(0); yes -> return True
continue_anyway ==
  /\ pc = "vd_confirm"
  /\ \E answer \in BOOLEAN :
       IF ~answer
         THEN SysExit(0, "dataset_declined")
         ELSE /\ pc' = "summary"
              /\ issues' = {}
              /\ scanned' = {}
              /\ UNCHANGED <<dlvars, excvars>>
  /\ UNCHANGED <<mainvars, dlfx, childvars, ltvars>>

\* mutant of confirm_summary: a refusal goes back to the menu
confirm_summary_Reselect ==
  /\ pc = "summary"
  /\ \E answer \in BOOLEAN :
       /\ pc' = IF answer THEN "dl_mkdir" ELSE "menu"
       /\ UNCHANGED <<vdvars, dlvars, excvars>>
  /\ UNCHANGED <<mainvars, dlfx, childvars, ltvars>>

\* main: Confirm.ask("Start training with this configuration?")
confirm_summary ==
  /\ pc = "summary"
  /\ \E answer \in BOOLEAN :
       IF ~answer
         THEN SysExit(0, "summary_declined")
         ELSE /\ pc' = "dl_mkdir"
              /\ UNCHANGED <<vdvars, dlvars, excvars>>
  /\ UNCHANGED <<mainvars, dlfx, childvars, ltvars>>

\* ----------------------------------------------------------- download_model

\* return value from download_model: back in main at `if not download_model(..)`
DlReturn(value, how) ==
  /\ dl_result' = <<value>>
  /\ dl_outcome' = how
  /\ pc' = "main_dl"
  /\ cmd' = <<>>
  /\ elapsed' = <<>>
  /\ returncode' = <<>>

\* mutant of makedirs: the logs directory is created along with the destination
makedirs_AlsoLogs ==
  /\ pc = "dl_mkdir"
  /\ \E ok \in BOOLEAN :
       IF ok
         THEN /\ dest_created' = TRUE
              /\ logs_dir' = "present"
              /\ pc' = "dl_exists"
              /\ UNCHANGED <<vdvars, dlvars, excvars>>
         ELSE /\ Raise("Exception", "exception")
              /\ UNCHANGED <<dest_created, logs_dir>>
  /\ UNCHANGED <<mainvars, model_exists, skip_offered, log_opened, spawn_count, kill_count,
                 dl_result, dl_outcome, childvars, ltvars>>

\* os.makedirs(model['local_dir'], exist_ok=True): creates it, or raises OSError
makedirs ==
  /\ pc = "dl_mkdir"
  /\ \E ok \in BOOLEAN :
       IF ok
         THEN /\ dest_created' = TRUE
              /\ pc' = "dl_exists"
              /\ UNCHANGED <<vdvars, dlvars, excvars>>
         ELSE /\ Raise("Exception", "exception")
              /\ UNCHANGED dest_created
  /\ UNCHANGED <<mainvars, logs_dir, model_exists, skip_offered, log_opened, spawn_count,
                 kill_count, dl_result, dl_outcome, childvars, ltvars>>

\* mutant of check_exists: the download starts without looking for the file
check_exists_NoCheck ==
  /\ pc = "dl_exists"
  /\ pc' = "dl_open"
  /\ UNCHANGED <<mainvars, vdvars, dlvars, dlfx, childvars, ltvars, excvars>>

\* "Check if already downloaded": os.path.exists(model_path) is evaluated only
\* when the descriptor has a model_file; when the file is there the program
\* says so and shows the "Skip download?" prompt
check_exists ==
  /\ pc = "dl_exists"
  /\ IF MODELS[model_key].model_file # None
       THEN \E exists \in BOOLEAN :
              /\ model_exists' = <<exists>>
              /\ skip_offered' = exists
              /\ pc' = IF exists THEN "dl_skip" ELSE "dl_open"
       ELSE /\ pc' = "dl_open"
            /\ UNCHANGED <<model_exists, skip_offered>>
  /\ UNCHANGED <<mainvars, vdvars, dlvars, dest_created, logs_dir, log_opened, spawn_count,
                 kill_count, dl_result, dl_outcome, childvars, ltvars, excvars>>

\* mutant of skip_prompt: the accepted skip returns False
skip_prompt_ReturnsFalse ==
  /\ pc = "dl_skip"
  /\ \E answer \in BOOLEAN :
       IF answer
         THEN DlReturn(FALSE, "Skipped")
         ELSE /\ pc' = "dl_open"
              /\ UNCHANGED <<dlvars, dl_result, dl_outcome>>
  /\ UNCHANGED <<mainvars, vdvars, dest_created, logs_dir, model_exists, skip_offered, log_opened,
                 spawn_count, kill_count, childvars, ltvars, excvars>>

\* the answer to Confirm.ask("Skip download?"): yes -> return True; no -> go on
\* to download
skip_prompt ==
  /\ pc = "dl_skip"
  /\ \E answer \in BOOLEAN :
       IF answer
         THEN DlReturn(TRUE, "Skipped")
         ELSE /\ pc' = "dl_open"
              /\ UNCHANGED <<dlvars, dl_result, dl_outcome>>
  /\ UNCHANGED <<mainvars, vdvars, dest_created, logs_dir, model_exists, skip_offered, log_opened,
                 spawn_count, kill_count, childvars, ltvars, excvars>>

\* "Build download command"
BuildCmd(model, tok) ==
  <<"huggingface-cli", "download", model.hf_repo, "--local-dir", model.local_dir>>
    \o model.hf_files
    \o (IF Truthy(tok) THEN <<"--token", tok>> ELSE <<>>)

\* cmd = [...]; open(log_file, 'w'): truncates the log, or raises OSError: always
\* when the logs directory is absent (this program does not create it), and
\* possibly when it is present (no permission, disk full)
open_log ==
  /\ pc = "dl_open"
  /\ \E ok \in BOOLEAN :
       IF ok /\ logs_dir = "present"
         THEN /\ cmd' = BuildCmd(MODELS[model_key], token)
              /\ log_opened' = TRUE
              /\ pc' = "dl_popen"
              /\ UNCHANGED <<vdvars, elapsed, returncode, excvars>>
         ELSE /\ Raise("Exception", "exception")
              /\ UNCHANGED log_opened
  /\ UNCHANGED <<mainvars, dest_created, logs_dir, model_exists, skip_offered, spawn_count, kill_count,
                 dl_result, dl_outcome, childvars, ltvars>>

\* process = subprocess.Popen(cmd, ...): starts the fetch process, or raises
\* (huggingface-cli not installed); then timeout = 10800, elapsed = 0
popen ==
  /\ pc = "dl_popen"
  /\ \E ok \in BOOLEAN :
       IF ok
         THEN /\ spawn_count' = spawn_count + 1
              /\ child' = "running"
              /\ child_rc' = <<>>
              /\ elapsed' = <<0>>
              /\ pc' = "dl_poll"
              /\ UNCHANGED <<vdvars, cmd, returncode, excvars>>
         ELSE /\ Raise("Exception", "exception")
              /\ UNCHANGED <<spawn_count, childvars>>
  /\ UNCHANGED <<mainvars, dest_created, logs_dir, model_exists, skip_offered, log_opened, kill_count,
                 dl_result, dl_outcome, ltvars>>

\* the fetch process ends on its own with some exit code; it runs independently
\* of the orchestrator, also after the orchestrator has exited
ChildExit ==
  /\ child = "running"
  /\ \E rc \in ExitCodes :
       /\ child' = "exited"
       /\ child_rc' = <<rc>>
  /\ UNCHANGED <<pc, mainvars, vdvars, dlvars, dlfx, ltvars, excvars>>

\* mutant of TimedOut: the comparison written `>` instead of `>=`
TimedOut_OffByOne(e) == e > timeout

\* `if elapsed >= timeout`
TimedOut(e) == e >= timeout

\* process.kill(): SIGKILL to a running process; nothing to one that has ended
KillChild ==
  /\ kill_count' = kill_count + 1
  /\ IF child = "running"
       THEN /\ child' = "killed"
            /\ child_rc' = <<0 - SIGKILL>>
       ELSE UNCHANGED childvars

\* the loop test `while process.poll() is None`: a running process leads into
\* the loop body; an ended one is reaped (process.returncode becomes its exit
\* status) and the loop is left
poll ==
  /\ pc = "dl_poll"
  /\ IF child = "running"
       THEN /\ pc' = "dl_sleep"
            /\ UNCHANGED returncode
       ELSE /\ pc' = "dl_rc"
            /\ returncode' = child_rc
  /\ UNCHANGED <<mainvars, vdvars, cmd, elapsed, dlfx, childvars, ltvars, excvars>>

\* mutant of sleep_tick: the counter advances by the interval plus one
sleep_tick_Drift ==
  /\ pc = "dl_sleep"
  /\ elapsed' = <<elapsed[1] + POLL_INTERVAL + 1>>
  /\ pc' = IF TimedOut(elapsed'[1]) THEN "dl_kill" ELSE "dl_poll"
  /\ UNCHANGED <<mainvars, vdvars, cmd, returncode, dlfx, childvars, ltvars, excvars>>

\* the loop body: time.sleep(3) returns; elapsed += 3; `if elapsed >= timeout`
\* leads to the kill, otherwise back to the loop test
sleep_tick ==
  /\ pc = "dl_sleep"
  /\ elapsed' = <<elapsed[1] + POLL_INTERVAL>>
  /\ pc' = IF TimedOut(elapsed'[1]) THEN "dl_kill" ELSE "dl_poll"
  /\ UNCHANGED <<mainvars, vdvars, cmd, returncode, dlfx, childvars, ltvars, excvars>>

\* mutant of check_returncode: the exit status is not looked at
check_returncode_AlwaysSuccess ==
  /\ pc = "dl_rc"
  /\ DlReturn(TRUE, "Success")
  /\ UNCHANGED <<mainvars, vdvars, dest_created, logs_dir, model_exists, skip_offered, log_opened,
                 spawn_count, kill_count, childvars, ltvars, excvars>>

\* after the loop: `if process.returncode != 0: return False`, else return True
check_returncode ==
  /\ pc = "dl_rc"
  /\ IF returncode # <<0>>
       THEN DlReturn(FALSE, "Failure")
       ELSE DlReturn(TRUE, "Success")
  /\ UNCHANGED <<mainvars, vdvars, dest_created, logs_dir, model_exists, skip_offered, log_opened,
                 spawn_count, kill_count, childvars, ltvars, excvars>>

\* the timeout branch: process.kill(); return False
timeout_kill ==
  /\ pc = "dl_kill"
  /\ KillChild
  /\ DlReturn(FALSE, "Timeout")
  /\ UNCHANGED <<mainvars, vdvars, dest_created, logs_dir, model_exists, skip_offered, log_opened,
                 spawn_count, ltvars, excvars>>

\* mutant of main_after_download: a failed download is tried again
main_after_download_Retry ==
  /\ pc = "main_dl"
  /\ pc' = IF dl_result # <<TRUE>> THEN "dl_mkdir" ELSE "lt_exists"
  /\ UNCHANGED <<mainvars, vdvars, dlvars, dlfx, childvars, ltvars, excvars>>

\* mutant of main_after_download: the result of download_model is ignored
main_after_download_Ignore ==
  /\ pc = "main_dl"
  /\ pc' = "lt_exists"
  /\ UNCHANGED <<mainvars, vdvars, dlvars, dlfx, childvars, ltvars, excvars>>

\* main: `if not download_model(model_key, token): sys.exit(1)`
main_after_download ==
  /\ pc = "main_dl"
  /\ IF dl_result # <<TRUE>>
       THEN SysExit(1, "download_failed")
       ELSE /\ pc' = "lt_exists"
            /\ UNCHANGED <<vdvars, dlvars, excvars>>
  /\ UNCHANGED <<mainvars, dlfx, childvars, ltvars>>

\* ---------------------------------------------------------- launch_training

ltfx == <<cwd, lt_entered, pip_runs, slept, train, banner>>

\* mutant of lt_check_dir: os.chdir is attempted before the existence test
lt_check_dir_ChdirFirst ==
  /\ pc = "lt_exists"
  /\ lt_entered' = TRUE
  /\ cwd' = "diffusion_pipe"
  /\ \E exists \in BOOLEAN :
       IF ~exists
         THEN SysExit(1, "no_prereq_dir")
         ELSE /\ pc' = "lt_pip1"
              /\ UNCHANGED <<vdvars, dlvars, excvars>>
  /\ UNCHANGED <<mainvars, dlfx, childvars, pip_runs, slept, env, train, banner>>

\* `if not os.path.exists(diffusion_pipe_dir): sys.exit(1)`; os.chdir(...)
lt_check_dir ==
  /\ pc = "lt_exists"
  /\ lt_entered' = TRUE
  /\ \E exists \in BOOLEAN :
       IF ~exists
         THEN /\ SysExit(1, "no_prereq_dir")
              /\ UNCHANGED cwd
         ELSE /\ cwd' = "diffusion_pipe"
              /\ pc' = "lt_pip1"
              /\ UNCHANGED <<vdvars, dlvars, excvars>>
  /\ UNCHANGED <<mainvars, dlfx, childvars, pip_runs, slept, env, train, banner>>

\* subprocess.run(['pip', 'install', ...]): runs to its end whatever its exit
\* status, or raises when pip cannot be started
PipRun(here, next) ==
  /\ pc = here
  /\ \E ok \in BOOLEAN :
       IF ok
         THEN /\ pip_runs' = pip_runs + 1
              /\ pc' = next
              /\ UNCHANGED <<vdvars, dlvars, excvars>>
         ELSE /\ Raise("Exception", "exception")
              /\ UNCHANGED pip_runs
  /\ UNCHANGED <<mainvars, dlfx, childvars, cwd, lt_entered, slept, env, train, banner>>

\* pip install transformers -U -q
lt_pip_transformers == PipRun("lt_pip1", "lt_pip2")

\* pip install --upgrade peft>=0.17.0 -q
lt_pip_peft == PipRun("lt_pip2", "lt_warn")

\* "Special warnings for certain models"
SlowInit == {"qwen", "z_image_turbo"}

\* `if model_key in ['qwen', 'z_image_turbo']`: warn and sleep
lt_warn ==
  /\ pc = "lt_warn"
  /\ pc' = IF model_key \in SlowInit THEN "lt_grace" ELSE "lt_launch"
  /\ UNCHANGED <<mainvars, vdvars, dlvars, dlfx, childvars, ltvars, excvars>>

\* time.sleep(10) has passed
lt_grace ==
  /\ pc = "lt_grace"
  /\ slept' = TRUE
  /\ pc' = "lt_launch"
  /\ UNCHANGED <<mainvars, vdvars, dlvars, dlfx, childvars, cwd, lt_entered,
                 pip_runs, env, train, banner, excvars>>

\* mutant of PrepareEnv: only one of the two flags is set
PrepareEnv_OneFlag(e) == [e EXCEPT !.NCCL_P2P_DISABLE = "1"]

\* "Prepare environment": a copy of os.environ with the two NCCL flags set
PrepareEnv(e) == [e EXCEPT !.NCCL_P2P_DISABLE = "1", !.NCCL_IB_DISABLE = "1"]

\* the command line of each launch mode
TrainArgv(model) ==
  IF model.training_script # None
    THEN <<"bash", model.training_script>>
    ELSE <<"deepspeed", "--num_gpus=1", "train.py", "--deepspeed", "--config", model.toml>>

\* the launch mode of a descriptor
LaunchKind(model) == IF model.training_script # None THEN "script" ELSE "inline"

\* subprocess.run([...], env=env) starts the training process
StartTraining(model, e) ==
  train' = [kind |-> LaunchKind(model), state |-> "running",
            argv |-> TrainArgv(model), env |-> e, rc |-> <<>>]

\* mutant of lt_dispatch: a missing script falls back to the inline command
lt_dispatch_Fallback ==
  /\ pc = "lt_launch"
  /\ \E exists \in BOOLEAN, ok \in BOOLEAN :
       IF ok
         THEN /\ env' = PrepareEnv(environ)
              /\ IF MODELS[model_key].training_script # None /\ exists
                   THEN StartTraining(MODELS[model_key], env')
                   ELSE train' = [kind |-> "inline", state |-> "running",
                                  argv |-> <<"deepspeed", "--num_gpus=1", "train.py",
                                             "--deepspeed", "--config",
                                             MODELS[model_key].toml>>,
                                  env |-> env', rc |-> <<>>]
              /\ pc' = "lt_wait"
              /\ UNCHANGED <<vdvars, dlvars, excvars>>
         ELSE /\ Raise("Exception", "exception")
              /\ env' = <<>>
              /\ UNCHANGED train
  /\ UNCHANGED <<mainvars, dlfx, childvars, cwd, lt_entered, pip_runs, slept, banner>>

\* "Check if model has separate training script": run the script if it exists
\* and exit with 1 if it does not; without a script run the inline command.
\* subprocess.run raises when the program cannot be started.
lt_dispatch ==
  /\ pc = "lt_launch"
  /\ \E exists \in BOOLEAN, ok \in BOOLEAN :
       IF MODELS[model_key].training_script # None /\ ~exists
         THEN /\ SysExit(1, "no_script")
              /\ env' = <<>>
              /\ UNCHANGED train
         ELSE IF ok
           THEN /\ env' = PrepareEnv(environ)
                /\ StartTraining(MODELS[model_key], env')
                /\ pc' = "lt_wait"
                /\ UNCHANGED <<vdvars, dlvars, excvars>>
           ELSE /\ Raise("Exception", "exception")
                /\ env' = <<>>
                /\ UNCHANGED train
  /\ UNCHANGED <<mainvars, dlfx, childvars, cwd, lt_entered, pip_runs, slept, banner>>

\* the training process ends with some exit status
TrainingExit ==
  /\ train.state = "running"
  /\ \E rc \in ExitCodes : train' = [train EXCEPT !.state = "exited", !.rc = <<rc>>]
  /\ UNCHANGED <<pc, mainvars, vdvars, dlvars, dlfx, childvars, cwd, lt_entered,
                 pip_runs, slept, env, banner, excvars>>

\* mutant of training_completed: a non-zero exit status ends the run with 1
training_completed_ChecksStatus ==
  /\ pc = "lt_wait"
  /\ train.state = "exited"
  /\ env' = <<>>
  /\ IF train.rc = <<0>>
       THEN /\ banner' = TRUE
            /\ pc' = "main_end"
            /\ UNCHANGED <<vdvars, dlvars, excvars>>
       ELSE /\ SysExit(1, "exception")
            /\ UNCHANGED banner
  /\ UNCHANGED <<mainvars, dlfx, childvars, cwd, lt_entered, pip_runs, slept, train>>

\* subprocess.run returns (its result is dropped); print "Training completed!"
training_completed ==
  /\ pc = "lt_wait"
  /\ train.state = "exited"
  /\ banner' = TRUE
  /\ env' = <<>>
  /\ pc' = "main_end"
  /\ UNCHANGED <<mainvars, vdvars, dlvars, dlfx, childvars, cwd, lt_entered,
                 pip_runs, slept, train, excvars>>

\* ------------------------------------------------------ the end of the run

\* the positions where the orchestrator blocks: prompts, sleeps, subprocess.run
Blocking == {"menu", "gat_prompt", "caption", "vd_confirm", "summary", "dl_skip",
             "dl_sleep", "lt_pip1", "lt_pip2", "lt_grace", "lt_wait"}

\* mutant of KeyboardInterrupt: the handler also kills a running fetch process
KeyboardInterrupt_KillsChild ==
  /\ pc \in Blocking
  /\ Raise("KeyboardInterrupt", "interrupt")
  /\ env' = <<>>
  /\ train' = IF train.state = "running"
                THEN [train EXCEPT !.state = "killed", !.rc = <<0 - SIGKILL>>]
                ELSE train
  /\ IF child = "running"
       THEN /\ kill_count' = kill_count + 1
            /\ child' = "killed"
            /\ child_rc' = <<0 - SIGKILL>>
       ELSE UNCHANGED <<kill_count, child, child_rc>>
  /\ UNCHANGED <<mainvars, dest_created, logs_dir, model_exists, skip_offered, log_opened,
                 spawn_count, dl_result, dl_outcome, cwd, lt_entered, pip_runs,
                 slept, banner>>

\* Ctrl-C while the orchestrator blocks: KeyboardInterrupt is raised there.
\* subprocess.run kills its child on the way out; download_model does nothing
\* about the fetch process.
KeyboardInterrupt ==
  /\ pc \in Blocking
  /\ Raise("KeyboardInterrupt", "interrupt")
  /\ env' = <<>>
  /\ train' = IF train.state = "running"
                THEN [train EXCEPT !.state = "killed", !.rc = <<0 - SIGKILL>>]
                ELSE train
  /\ UNCHANGED <<mainvars, dlfx, childvars, cwd, lt_entered, pip_runs, slept, banner>>

\* mutant of ExitCodeFor: the second handler written as a bare `except:`, which
\* also catches SystemExit
ExitCodeFor_CatchAll(e) ==
  CASE e = "KeyboardInterrupt" -> 0
    [] e = "Exception" -> 1
    [] e = "SystemExit0" -> 1
    [] e = "SystemExit1" -> 1

\* main's handlers: `except KeyboardInterrupt: sys.exit(0)`,
\* `except Exception: sys.exit(1)`; SystemExit is neither and passes through
ExitCodeFor(e) ==
  CASE e = "KeyboardInterrupt" -> 0
    [] e = "Exception" -> 1
    [] e = "SystemExit0" -> 0
    [] e = "SystemExit1" -> 1

\* the exception reaches main's except clauses and the process exits
main_except ==
  /\ pc = "raised"
  /\ exit_code' = <<ExitCodeFor(exc)>>
  /\ pc' = "exited"
  /\ UNCHANGED <<mainvars, vdvars, dlvars, dlfx, childvars, ltvars, exc, cause>>

\* main returns after launch_training: the interpreter exits with 0
main_end ==
  /\ pc = "main_end"
  /\ exit_code' = <<0>>
  /\ cause' = "done"
  /\ pc' = "exited"
  /\ UNCHANGED <<mainvars, vdvars, dlvars, dlfx, childvars, ltvars, exc>>

\* ------------------------------------------------------------ specification

Next ==
  \/ show_welcome
  \/ show_menu
  \/ get_api_token
  \/ token_prompt
  \/ get_caption_mode
  \/ validate_images
  \/ validate_videos
  \/ validate_gate
  \/ continue_anyway
  \/ confirm_summary
  \/ makedirs
  \/ check_exists
  \/ skip_prompt
  \/ open_log
  \/ popen
  \/ ChildExit
  \/ poll
  \/ sleep_tick
  \/ timeout_kill
  \/ check_returncode
  \/ main_after_download
  \/ lt_check_dir
  \/ lt_pip_transformers
  \/ lt_pip_peft
  \/ lt_warn
  \/ lt_grace
  \/ lt_dispatch
  \/ TrainingExit
  \/ training_completed
  \/ KeyboardInterrupt
  \/ main_except
  \/ main_end

Spec == Init /\ [][Next]_vars

\* the supervisor's own steps always go on: the interpreter keeps running and
\* time.sleep(3) returns
Supervisor == poll \/ sleep_tick \/ timeout_kill \/ check_returncode

FairSpec == Init /\ [][Next]_vars /\ WF_vars(Supervisor)

\* ------------------------------------------- download_model taken on its own

\* the states in which main calls download_model(model_key, token): every
\* model key, with the token get_api_token returns for it.  A model that needs
\* a token arrives with the environment's one or with a typed one; the others
\* arrive with None whatever the environment holds.
InitDL ==
  /\ pc = "dl_mkdir"
  /\ model_key \in ModelKeys
  /\ caption_mode = "skip"
  /\ environ0 \in [HUGGING_FACE_TOKEN : {Unset, EnvToken},
                   NCCL_P2P_DISABLE : {Unset}, NCCL_IB_DISABLE : {Unset}]
  /\ IF MODELS[model_key].requires_token
       THEN /\ token = IF TokenUsable(environ0.HUGGING_FACE_TOKEN)
                         THEN environ0.HUGGING_FACE_TOKEN ELSE TypedToken
            /\ environ = [environ0 EXCEPT !.HUGGING_FACE_TOKEN = token]
       ELSE /\ environ0.HUGGING_FACE_TOKEN = EnvToken
            /\ token = None
            /\ environ = environ0
  /\ issues = {}
  /\ scanned = {}
  /\ cmd = <<>>
  /\ elapsed = <<>>
  /\ returncode = <<>>
  /\ dest_created = FALSE
  /\ logs_dir \in {"absent", "present"}
  /\ model_exists = <<>>
  /\ skip_offered = FALSE
  /\ log_opened = FALSE
  /\ spawn_count = 0
  /\ child = "none"
  /\ child_rc = <<>>
  /\ kill_count = 0
  /\ dl_result = <<>>
  /\ dl_outcome = "none"
  /\ cwd = "start"
  /\ lt_entered = FALSE
  /\ pip_runs = 0
  /\ slept = FALSE
  /\ env = <<>>
  /\ train = NoTrain
  /\ banner = FALSE
  /\ exc = "none"
  /\ cause = "none"
  /\ exit_code = <<>>

\* download_model, the fetch process, the user's interrupt, and what main does
\* with the result
NextDL ==
  \/ makedirs
  \/ check_exists
  \/ skip_prompt
  \/ open_log
  \/ popen
  \/ ChildExit
  \/ poll
  \/ sleep_tick
  \/ timeout_kill
  \/ check_returncode
  \/ main_after_download
  \/ KeyboardInterrupt
  \/ main_except

FairSpecDL == InitDL /\ [][NextDL]_vars /\ WF_vars(Supervisor)

\* the positions inside the polling loop of download_model
InLoop == pc \in {"dl_poll", "dl_sleep", "dl_kill", "dl_rc"}

\* download_model has returned
Returned == dl_result # <<>>

\* ------------------------------------------------------------------ claims

\* C1: when every poll up to the ceiling found the fetch process running
\* (the supervisor is at the timeout branch), elapsed is exactly 10800, the
\* next step issues the kill, leaves no running fetch process and returns False
\* as the Timeout outcome; elapsed never passes the ceiling; and the loop is
\* always left in the end: download_model returns an outcome, unless a keyboard
\* interrupt unwinds it first.
C1_TimeoutEnforced ==
  /\ [](InLoop => (elapsed # <<>> /\ elapsed[1] >= 0 /\ elapsed[1] <= timeout))
  /\ [](pc = "dl_sleep" => elapsed[1] < timeout)
  /\ [](pc = "dl_kill" => (elapsed = <<timeout>> /\ kill_count = 0 /\ ~Returned))
  /\ [](dl_outcome = "Timeout" =>
          (dl_result = <<FALSE>> /\ kill_count = 1 /\ child \in {"killed", "exited"}))
  /\ [][(pc = "dl_kill" /\ pc' # "dl_kill") =>
          (pc' = "main_dl" /\ dl_result' = <<FALSE>> /\ dl_outcome' = "Timeout"
           /\ kill_count' = kill_count + 1 /\ child' # "running")]_vars
  /\ (InLoop ~> (Returned \/ exc = "KeyboardInterrupt"))

\* C1 witness: the fetch process never exited, was killed at the ceiling, and
\* download_model returned False
C1_Witness ==
  /\ dl_outcome = "Timeout"
  /\ dl_result = <<FALSE>>
  /\ child = "killed"
  /\ kill_count = 1

\* C2: a fetch process that ended with a non-zero exit status never yields
\* True; download_model returns True only after a skip (nothing was spawned)
\* or after the fetch process exited with 0.
C2_NonZeroIsFailure ==
  /\ (dl_result = <<TRUE>> =>
        (spawn_count = 0 \/ (child = "exited" /\ child_rc = <<0>>)))
  /\ ((Returned /\ child_rc # <<>> /\ child_rc # <<0>>) => dl_result = <<FALSE>>)
  /\ (dl_outcome = "Failure" => (dl_result = <<FALSE>> /\ child_rc # <<0>>))

\* C2 witness: the fetch process exited with 1 and download_model returned
\* False on the failure branch
C2_Witness ==
  /\ child = "exited"
  /\ child_rc = <<1>>
  /\ dl_outcome = "Failure"
  /\ dl_result = <<FALSE>>

\* C3: whenever the fetch process ended on its own with exit status 0 (it was
\* not killed) and download_model has returned, it returned True.
C3_ZeroExitIsSuccess ==
  (Returned /\ child = "exited" /\ child_rc = <<0>>) => dl_result = <<TRUE>>

\* C4: the skip is offered exactly when the descriptor has a model_file and
\* os.path.exists found it, before anything was spawned or the log opened (a
\* download that starts although the file is there follows a declined offer);
\* and after an accepted skip download_model has returned True with no fetch
\* process spawned and the log file not opened.
C4_SkipSpawnsNothing ==
  /\ (skip_offered <=> model_exists = <<TRUE>>)
  /\ (model_exists # <<>> => MODELS[model_key].model_file # None)
  /\ ((model_exists = <<TRUE>> /\ pc \in {"dl_skip", "dl_open", "dl_popen"}) =>
        (skip_offered /\ spawn_count = 0))
  /\ (pc = "dl_skip" =>
        (MODELS[model_key].model_file # None /\ model_exists = <<TRUE>> /\ skip_offered
         /\ spawn_count = 0 /\ child = "none" /\ ~log_opened /\ dest_created))
  /\ (dl_outcome = "Skipped" =>
        (model_exists = <<TRUE>> /\ skip_offered /\ dl_result = <<TRUE>> /\ spawn_count = 0 /\ child = "none" /\ ~log_opened))
  /\ ((Returned /\ spawn_count = 0) => dl_result = <<TRUE>>)

\* C4 witness: the skip was accepted and download_model returned True
C4_Witness ==
  /\ dl_outcome = "Skipped"
  /\ dl_result = <<TRUE>>
  /\ pc = "main_dl"
  /\ exists_checked

\* C5 as stated: for every model key, a fetch process is spawned only after
\* the existence check was evaluated.
C5_CheckBeforeSpawn_AllKeys ==
  spawn_count > 0 => exists_checked

\* C5 amended: for every model key that declares a model_file, the log is
\* opened and a fetch process spawned only after the existence check was
\* evaluated; for the key without a model_file (z_image_turbo) no existence
\* check is evaluated at all.
C5_CheckBeforeSpawn ==
  /\ ((model_key \in ModelKeys /\ MODELS[model_key].model_file # None
       /\ (log_opened \/ spawn_count > 0 \/ pc \in {"dl_open", "dl_popen", "dl_skip"}))
        => exists_checked)
  /\ ((model_key \in ModelKeys /\ MODELS[model_key].model_file = None)
        => ~exists_checked)

\* C5 witness: a fetch process runs for a model with a model_file, after the
\* existence check
C5_Witness ==
  /\ spawn_count = 1
  /\ child = "running"
  /\ model_key = "sdxl"
  /\ exists_checked

\* C6: at most one fetch process is ever spawned in a run and at most one
\* exists at any time; once download_model has returned False the run only
\* ends (main's check, the unwinding, the exit): no second download starts.
C6_SingleDownloadJob ==
  /\ spawn_count \in {0, 1}
  /\ ((child # "none") <=> (spawn_count = 1))
  /\ (pc \in {"dl_mkdir", "dl_exists", "dl_skip", "dl_open", "dl_popen"} =>
        (spawn_count = 0 /\ ~Returned))
  /\ (dl_result = <<FALSE>> =>
        (pc \in {"main_dl", "raised", "exited"} /\ spawn_count = 1 /\ child # "running"
         /\ dl_outcome \in {"Failure", "Timeout"}))

\* C6 witness: the single download ended in Failure and the run has exited
C6_Witness ==
  /\ dl_outcome = "Failure"
  /\ spawn_count = 1
  /\ pc = "exited"

\* C7: a model with a training script is never run with the inline command
\* (and a model without one never with a script); when the script is absent
\* the run ends with exit code 1, no training process was started and the
\* completion banner was not printed.
C7_MissingScriptFailsFast ==
  /\ (train.kind = "inline" => MODELS[model_key].training_script = None)
  /\ (train.kind = "script" => MODELS[model_key].training_script # None)
  /\ (banner => train.state = "exited")
  /\ (cause = "no_script" =>
        (MODELS[model_key].training_script # None /\ train = NoTrain /\ ~banner
         /\ exc = "SystemExit1" /\ pc \in {"raised", "exited"}
         /\ (pc = "exited" => exit_code = <<1>>)))

\* C7 witness: flux, script absent: exited with 1 after the dependency refresh,
\* nothing launched
C7_Witness ==
  /\ cause = "no_script"
  /\ model_key = "flux"
  /\ pc = "exited"
  /\ exit_code = <<1>>
  /\ pip_runs = 2
  /\ train = NoTrain

\* C8: once download_model has returned False (Failure or Timeout), the run
\* is at main's check or unwinding SystemExit(1) or exited with code 1;
\* launch_training was never entered, no dependency refresh ran and no
\* training process was started.
C8_FailedDownloadAborts ==
  dl_result = <<FALSE>> =>
    /\ pc \in {"main_dl", "raised", "exited"}
    /\ (pc = "raised" => (exc = "SystemExit1" /\ cause = "download_failed"))
    /\ (pc = "exited" => (exit_code = <<1>> /\ cause = "download_failed"))
    /\ ~lt_entered
    /\ pip_runs = 0
    /\ cwd = "start"
    /\ train = NoTrain
    /\ ~banner

\* C8 witness: the download timed out and the process exited with 1
C8_Witness ==
  /\ dl_outcome = "Timeout"
  /\ dl_result = <<FALSE>>
  /\ pc = "exited"
  /\ exit_code = <<1>>

\* the terminal causes that are user cancellations, and the hard failures
Cancellations == {"dataset_declined", "summary_declined", "interrupt"}
HardFailures == {"empty_token", "download_failed", "no_prereq_dir", "no_script", "exception"}

\* C9: when the process has exited, its exit code is 0 exactly when the run
\* reached the end of main (training call returned) or was cancelled by the
\* user, and 1 exactly for the hard failures; a SystemExit raised by an inner
\* step leaves with its own code.
C9_ExitCodeByCause ==
  /\ (pc = "exited" =>
        /\ exit_code \in {<<0>>, <<1>>}
        /\ (exit_code = <<0>> <=> cause \in Cancellations \cup {"done"})
        /\ (exit_code = <<1>> <=> cause \in HardFailures)
        /\ (exc = "SystemExit0" => exit_code = <<0>>)
        /\ (exc = "SystemExit1" => exit_code = <<1>>))
  /\ (cause = "done" <=> (pc = "exited" /\ exc = "none"))
  /\ (cause = "done" => (banner /\ train.state = "exited"))
  /\ (cause = "interrupt" <=> exc = "KeyboardInterrupt")
  /\ (cause = "exception" <=> exc = "Exception")
  /\ (cause \in {"dataset_declined", "summary_declined"} <=> exc = "SystemExit0")
  /\ (cause \in HardFailures \ {"exception"} <=> exc = "SystemExit1")
  /\ (cause = "download_failed" => dl_result = <<FALSE>>)
  /\ (cause = "empty_token" => token = None)
  /\ (cause = "no_prereq_dir" => (lt_entered /\ cwd = "start"))
  /\ (cause = "summary_declined" => (~dest_created /\ spawn_count = 0))
  /\ (cause = "dataset_declined" => (~dest_created /\ spawn_count = 0))

\* C9 witness: the user declined the summary; sys.exit(0) passed main's
\* handlers and the process exited with 0
C9_Witness ==
  /\ pc = "exited"
  /\ cause = "summary_declined"
  /\ exc = "SystemExit0"
  /\ exit_code = <<0>>

\* C10: the token prompt is reached exactly for a model that requires a token
\* when the environment holds no usable one; past the prompt the token is the
\* non-empty one that was typed, unless the run ended at the prompt; and after
\* an empty token the run only unwinds SystemExit(1) and exits with 1: no
\* caption mode was chosen, nothing was validated, no directory created, no
\* log opened, no process spawned, and os.environ is as it was at the start.
C10_EmptyTokenExits ==
  /\ (pc = "gat_prompt" =>
        (MODELS[model_key].requires_token
         /\ ~TokenUsable(environ.HUGGING_FACE_TOKEN)
         /\ environ = environ0 /\ token = None))
  /\ ((model_key \in ModelKeys /\ MODELS[model_key].requires_token
       /\ ~TokenUsable(environ0.HUGGING_FACE_TOKEN)
       /\ pc \notin {"gat_check", "gat_prompt"})
        => \/ (token = TypedToken /\ environ.HUGGING_FACE_TOKEN = TypedToken)
           \/ (pc \in {"raised", "exited"} /\ cause \in {"empty_token", "interrupt"}
               /\ token = None /\ environ = environ0 /\ caption_mode = None))
  /\ (cause = "empty_token" =>
        (pc \in {"raised", "exited"} /\ exc = "SystemExit1"
         /\ (pc = "exited" => exit_code = <<1>>)
         /\ MODELS[model_key].requires_token
         /\ ~TokenUsable(environ0.HUGGING_FACE_TOKEN)
         /\ environ = environ0 /\ token = None
         /\ caption_mode = None /\ issues = {} /\ scanned = {}
         /\ ~dest_created /\ ~exists_checked /\ ~log_opened
         /\ spawn_count = 0 /\ child = "none" /\ ~lt_entered /\ train = NoTrain))

\* C10 witness: flux with the placeholder in the environment, an empty token
\* typed, exited with 1
C10_Witness ==
  /\ cause = "empty_token"
  /\ model_key = "flux"
  /\ environ0.HUGGING_FACE_TOKEN = Placeholder
  /\ pc = "exited"
  /\ exit_code = <<1>>

\* ---------------------------------------------------------------------- C11
\* the directories validate_dataset looks at for a caption mode
ModeDirs(mode) ==
  (IF mode \in {"images", "both"} THEN {"image_dataset_here"} ELSE {}) \cup
  (IF mode \in {"videos", "both"} THEN {"video_dataset_here"} ELSE {})

\* C11: when validate_dataset has finished its checks, the directories it
\* inspected are exactly those of the caption mode ('images' the image
\* directory, 'videos' the video directory, 'both' both, 'skip' none), every
\* issue is about an inspected directory of the mode, and 'skip' has no issue
\* whatever the directories look like
C11_ScansModeDirs ==
  /\ pc = "vd_videos" =>
        /\ scanned = ModeDirs(caption_mode) \cap {"image_dataset_here"}
        /\ \A i \in issues : i[1] \in scanned
  /\ pc \in {"vd_gate", "vd_confirm"} =>
        /\ scanned = ModeDirs(caption_mode)
        /\ \A i \in issues : i[1] \in ModeDirs(caption_mode)
        /\ caption_mode = "skip" => (scanned = {} /\ issues = {})
        /\ caption_mode = "images" => scanned = {"image_dataset_here"}
        /\ caption_mode = "videos" => scanned = {"video_dataset_here"}
        /\ caption_mode = "both" => scanned = {"image_dataset_here", "video_dataset_here"}

\* only the image directory was inspected, and it has an issue
C11_Witness ==
  /\ pc = "vd_confirm"
  /\ caption_mode = "images"
  /\ scanned = {"image_dataset_here"}
  /\ issues = {<<"image_dataset_here", "no_files">>}

\* ---------------------------------------------------------------------- C12
\* nothing of download_model or launch_training has happened
NothingStarted ==
  /\ ~dest_created
  /\ ~exists_checked
  /\ ~log_opened
  /\ spawn_count = 0
  /\ child = "none"
  /\ dl_result = <<>>
  /\ ~lt_entered
  /\ pip_runs = 0
  /\ train = NoTrain

\* C12: once the checks of validate_dataset are done, "Continue anyway?" is
\* asked if and only if at least one issue was recorded; a refusal ends the
\* process with exit code 0 and neither download_model nor launch_training
\* ever runs; an acceptance, or having no issue, leads to the summary
\* confirmation (an interrupt at the prompt aside)
C12_IssuesGatedByConfirm ==
  /\ [](pc = "vd_confirm" => issues # {})
  /\ [](cause = "dataset_declined" =>
          /\ pc \in {"raised", "exited"}
          /\ exc = "SystemExit0"
          /\ pc = "exited" => exit_code = <<0>>
          /\ NothingStarted)
  /\ [][/\ (pc = "vd_gate" /\ pc' # pc) =>
             /\ issues # {} => pc' = "vd_confirm"
             /\ issues = {} => pc' = "summary"
        /\ (pc' = "vd_confirm" /\ pc # pc') => pc = "vd_gate"
        /\ (pc = "vd_confirm" /\ pc' # pc) =>
             \/ pc' = "summary"
             \/ pc' = "raised" /\ cause' \in {"dataset_declined", "interrupt"}
                               /\ exc' \in {"SystemExit0", "KeyboardInterrupt"}
        /\ (pc' = "summary" /\ pc # pc') => (pc \in {"vd_gate", "vd_confirm"} /\ NothingStarted)
       ]_vars

\* the user refused to continue with a defective dataset and the process ended
C12_Witness ==
  /\ pc = "exited"
  /\ cause = "dataset_declined"
  /\ exit_code = <<0>>
  /\ NothingStarted

\* ---------------------------------------------------------------------- C13
\* the orchestrator step a control position belongs to: 1 Welcome,
\* 2 SelectModel, 3 AcquireCredential, 4 SelectCaptionMode, 5 ValidateDataset,
\* 6 ConfirmSummary, 7 DownloadModel, 8 LaunchTraining, 9 Done, 10 Abort
Step(p, why) ==
  CASE p = "welcome" -> 1
    [] p = "menu" -> 2
    [] p \in {"gat_check", "gat_prompt"} -> 3
    [] p = "caption" -> 4
    [] p \in {"vd_images", "vd_videos", "vd_gate", "vd_confirm"} -> 5
    [] p = "summary" -> 6
    [] p \in {"dl_mkdir", "dl_exists", "dl_skip", "dl_open", "dl_popen", "dl_poll",
              "dl_sleep", "dl_kill", "dl_rc", "main_dl"} -> 7
    [] p \in {"lt_exists", "lt_pip1", "lt_pip2", "lt_warn", "lt_grace", "lt_launch",
              "lt_wait"} -> 8
    [] p = "main_end" -> 9
    [] p = "exited" /\ why = "done" -> 9
    [] OTHER -> 10

\* C13: the steps of main occur only in the order Welcome, SelectModel,
\* AcquireCredential, SelectCaptionMode, ValidateDataset, ConfirmSummary,
\* DownloadModel, LaunchTraining, Done: every transition stays in its step,
\* enters the next one or goes to Abort, so no step is entered twice or ahead
\* of its predecessor; Done and Abort are final; the training process is
\* started only in LaunchTraining, after download_model returned a true value
C13_StrictlyLinear ==
  /\ [][/\ \/ Step(pc', cause') = Step(pc, cause)
           \/ Step(pc', cause') = Step(pc, cause) + 1 /\ Step(pc, cause) < 9
           \/ Step(pc', cause') = 10 /\ Step(pc, cause) < 9
        /\ (train' # NoTrain /\ train = NoTrain) =>
             /\ Step(pc, cause) = 8
             /\ dl_result = <<TRUE>>
             /\ dl_outcome \in {"Success", "Skipped"}
        /\ (Step(pc', cause') = 7 /\ Step(pc, cause) # 7) => pc = "summary"
       ]_vars
  /\ [](train # NoTrain => (dl_result = <<TRUE>> /\ Step(pc, cause) \in {8, 9, 10}))
  /\ [](Step(pc, cause) \in {8, 9} => dl_result = <<TRUE>>)

\* a run that went through every step to Done
C13_Witness ==
  /\ pc = "exited"
  /\ cause = "done"
  /\ dl_outcome = "Success"
  /\ train.state = "exited"
  /\ banner

\* ---------------------------------------------------------------------- C14
\* C14: the exit status of the training process is not interpreted: whatever
\* it is, the return of the training call is followed by the completion
\* banner and the Done step (only an interrupt can come first), and a run
\* that reached Done has printed the banner and exits with code 0
C14_TrainingStatusIgnored ==
  /\ [][(pc = "lt_wait" /\ train.state = "exited" /\ pc' # pc) =>
          \/ pc' = "main_end" /\ banner' /\ train' = train
          \/ pc' = "raised" /\ exc' = "KeyboardInterrupt"]_vars
  /\ [][(pc = "main_end" /\ pc' # pc) =>
          (pc' = "exited" /\ exit_code' = <<0>> /\ cause' = "done")]_vars
  /\ [](pc = "main_end" => (banner /\ train.state = "exited"))
  /\ []((pc = "exited" /\ train.state = "exited" /\ exc = "none") =>
          (banner /\ cause = "done" /\ exit_code = <<0>>))
  /\ [](banner => train.state = "exited")

\* training failed with a non-zero status, yet the run ended in Done with 0
C14_Witness ==
  /\ pc = "exited"
  /\ cause = "done"
  /\ train.rc = <<MaxExitCode>>
  /\ banner
  /\ exit_code = <<0>>

\* ---------------------------------------------------------------------- C15
\* C15: process.kill() is called only on the timeout path of download_model
\* (at most once, with the ceiling reached); a keyboard interrupt in the
\* poll/sleep loop ends the orchestrator with exit code 0 and leaves the
\* fetch process as it is; returning Success or Failure issues no kill
C15_KillOnlyOnTimeout ==
  /\ [](kill_count > 0 => (kill_count = 1 /\ dl_outcome = "Timeout"))
  /\ [](child = "killed" => dl_outcome = "Timeout")
  /\ [](dl_outcome \in {"Success", "Failure", "Skipped"} => kill_count = 0)
  /\ []((pc = "exited" /\ cause = "interrupt") => exit_code = <<0>>)
  /\ [][kill_count' # kill_count =>
          (pc = "dl_kill" /\ elapsed # <<>> /\ elapsed[1] >= timeout
             /\ dl_outcome' = "Timeout")]_vars
  /\ [][(exc' = "KeyboardInterrupt" /\ exc = "none") =>
          (child' = child /\ child_rc' = child_rc /\ kill_count' = kill_count)]_vars

\* the orchestrator was interrupted in the loop and has exited with 0 while
\* the fetch process it started is still running
C15_Witness ==
  /\ pc = "exited"
  /\ cause = "interrupt"
  /\ exit_code = <<0>>
  /\ dl_outcome = "none"
  /\ spawn_count = 1
  /\ child = "running"
  /\ kill_count = 0

\* ---------------------------------------------------------------------- C16
\* C16: when launch_training finds the prerequisite directory absent, the
\* process exits with code 1 and nothing else of the launcher has happened:
\* the working directory is unchanged, no pip command was run, the grace
\* sleep did not happen and no training process was started
C16_MissingPrereqFailsFirst ==
  /\ [](cause = "no_prereq_dir" =>
          /\ pc \in {"raised", "exited"}
          /\ exc = "SystemExit1"
          /\ pc = "exited" => exit_code = <<1>>
          /\ lt_entered
          /\ cwd = "start"
          /\ pip_runs = 0
          /\ ~slept
          /\ env = <<>>
          /\ train = NoTrain
          /\ ~banner)
  /\ [](pc = "lt_exists" =>
          (cwd = "start" /\ pip_runs = 0 /\ ~slept /\ train = NoTrain))
  /\ [][(pc = "lt_exists" /\ pc' # pc) =>
          \/ pc' = "lt_pip1" /\ cwd' = "diffusion_pipe" /\ exc' = "none"
          \/ /\ pc' = "raised" /\ exc' = "SystemExit1" /\ cause' = "no_prereq_dir"
             /\ cwd' = cwd /\ pip_runs' = pip_runs /\ slept' = slept
             /\ train' = train]_vars

\* a slow-initialising model whose prerequisite directory is missing: the
\* process has exited with 1 without chdir, pip, sleep or training
C16_Witness ==
  /\ pc = "exited"
  /\ cause = "no_prereq_dir"
  /\ exit_code = <<1>>
  /\ model_key \in SlowInit
  /\ dl_result = <<TRUE>>
  /\ cwd = "start"
  /\ pip_runs = 0
  /\ ~slept
  /\ train = NoTrain

\* ---------------------------------------------------------------------- C17
\* the registry keys by launch mode
ScriptModels == {"flux", "sdxl", "wan13", "wan14b_t2v", "wan14b_i2v"}
InlineModels == {"qwen", "z_image_turbo"}

\* C17: for every model key a started training process is the one of the
\* descriptor's launch mode: the five script models run `bash <their
\* script>` and never the inline command, qwen and z_image_turbo run the
\* inline single-GPU deepspeed command with their own config file; there is
\* one training process per run (once started only its liveness changes);
\* its environment is the orchestrator's with NCCL_P2P_DISABLE and
\* NCCL_IB_DISABLE set to '1'; os.environ itself is not changed by the launch
C17_DispatchByLaunchMode ==
  /\ [](train # NoTrain =>
          /\ model_key \in ScriptModels \cup InlineModels
          /\ model_key \in ScriptModels =>
               /\ train.kind = "script"
               /\ train.argv = <<"bash", MODELS[model_key].training_script>>
               /\ MODELS[model_key].training_script # None
          /\ model_key \in InlineModels =>
               /\ train.kind = "inline"
               /\ train.argv = <<"deepspeed", "--num_gpus=1", "train.py", "--deepspeed",
                                 "--config", MODELS[model_key].toml>>
          /\ train.env.NCCL_P2P_DISABLE = "1"
          /\ train.env.NCCL_IB_DISABLE = "1"
          /\ train.env.HUGGING_FACE_TOKEN = environ.HUGGING_FACE_TOKEN)
  /\ [](/\ environ.NCCL_P2P_DISABLE = environ0.NCCL_P2P_DISABLE
        /\ environ.NCCL_IB_DISABLE = environ0.NCCL_IB_DISABLE)
  /\ [](pc = "lt_wait" => train.state \in {"running", "exited"})
  /\ [][/\ train # NoTrain =>
             /\ train'.kind = train.kind
             /\ train'.argv = train.argv
             /\ train'.env = train.env
             /\ train'.state # "none"
        /\ (train = NoTrain /\ train' # NoTrain) =>
             (pc = "lt_launch" /\ pc' = "lt_wait" /\ train'.state = "running")
        /\ (pc = "lt_launch" /\ pc' = "lt_wait") => (train = NoTrain /\ train' # NoTrain)
        /\ Step(pc, cause) = 8 => environ' = environ
       ]_vars

\* the inline command is running for a model without training script, with
\* both flags in its environment and none in os.environ
C17_Witness ==
  /\ pc = "lt_wait"
  /\ model_key = "z_image_turbo"
  /\ train.state = "running"
  /\ train.kind = "inline"
  /\ train.argv[1] = "deepspeed"
  /\ train.env.NCCL_P2P_DISABLE = "1"
  /\ train.env.NCCL_IB_DISABLE = "1"
  /\ environ.NCCL_P2P_DISABLE = Unset
  /\ environ.NCCL_IB_DISABLE = Unset

\* ---------------------------------------------------------------------- C18
\* the fetch command carries the credential flag
HasTokenFlag(c) == \E i \in 1..Len(c) : c[i] = "--token"

\* C18: for a model that does not require a token the prompt is never
\* reached, get_api_token returns None whatever HUGGING_FACE_TOKEN holds, the
\* environment stays as it was, and the fetch command has no --token flag
\* even with a usable credential in the environment; for a model that
\* requires one the command carries the token; the environment credential is
\* written only at the prompt, with the non-empty token that was typed
C18_TokenOnlyWhenRequired ==
  /\ []((model_key # None /\ ~MODELS[model_key].requires_token) =>
          /\ pc # "gat_prompt"
          /\ cause # "empty_token"
          /\ token = None
          /\ environ = environ0
          /\ cmd # <<>> =>
               /\ ~HasTokenFlag(cmd)
               /\ cmd = <<"huggingface-cli", "download", MODELS[model_key].hf_repo,
                          "--local-dir", MODELS[model_key].local_dir>>
                         \o MODELS[model_key].hf_files)
  /\ []((model_key # None /\ MODELS[model_key].requires_token /\ cmd # <<>>) =>
          /\ HasTokenFlag(cmd)
          /\ cmd[Len(cmd)] = token
          /\ token = environ.HUGGING_FACE_TOKEN
          /\ TokenUsable(token))
  /\ [][environ' # environ =>
          /\ pc = "gat_prompt"
          /\ MODELS[model_key].requires_token
          /\ ~TokenUsable(environ.HUGGING_FACE_TOKEN)
          /\ Truthy(token')
          /\ token' = TypedToken
          /\ environ' = [environ EXCEPT !.HUGGING_FACE_TOKEN = token']]_vars

\* a fetch command without credential flag although the environment holds a
\* usable token
C18_Witness ==
  /\ model_key # None
  /\ ~MODELS[model_key].requires_token
  /\ environ.HUGGING_FACE_TOKEN = EnvToken
  /\ token = None
  /\ cmd # <<>>
  /\ ~HasTokenFlag(cmd)
  /\ child = "running"

\* ---------------------------------------------------------------------- C19
\* the number of completed loop iterations, and the most the loop can make
Ticks == elapsed[1] \div POLL_INTERVAL
MaxTicks == timeout \div POLL_INTERVAL

\* C19: in the polling loop of download_model the elapsed counter starts at
\* 0, grows by exactly 3 per tick, is always a multiple of 3 between 0 and
\* 10800, and at most 3600 ticks are made; Timeout is returned only with
\* elapsed = 10800; Success and Failure are returned only after the last
\* liveness poll saw the process exited
C19_ElapsedCounter ==
  /\ [](POLL_INTERVAL = 3 /\ timeout = 10800 /\ MaxTicks = 3600)
  /\ [](elapsed # <<>> =>
          /\ elapsed[1] % 3 = 0
          /\ 0 <= elapsed[1]
          /\ elapsed[1] <= 10800
          /\ Ticks * 3 = elapsed[1]
          /\ Ticks <= 3600)
  /\ [](pc \in {"dl_poll", "dl_sleep", "dl_rc"} => (elapsed # <<>> /\ elapsed[1] < 10800))
  /\ [](pc = "dl_kill" => elapsed = <<10800>>)
  /\ [](pc = "dl_rc" => (child = "exited" /\ returncode # <<>> /\ returncode = child_rc))
  /\ [][/\ (elapsed = <<>> /\ elapsed' # <<>>) => (pc = "dl_popen" /\ elapsed' = <<0>>)
        /\ (elapsed # <<>> /\ elapsed' # <<>> /\ elapsed' # elapsed) =>
             (pc = "dl_sleep" /\ elapsed'[1] = elapsed[1] + 3)
        /\ (pc = "dl_sleep" /\ pc' \in {"dl_poll", "dl_kill"}) =>
             elapsed'[1] = elapsed[1] + 3
        /\ (dl_outcome' = "Timeout" /\ dl_outcome # "Timeout") =>
             (pc = "dl_kill" /\ elapsed = <<10800>> /\ Ticks = 3600)
        /\ (dl_outcome' \in {"Success", "Failure"} /\ dl_outcome = "none") =>
             /\ pc = "dl_rc"
             /\ child = "exited"
             /\ returncode = child_rc
             /\ returncode # <<>>
             /\ (dl_outcome' = "Success") = (returncode = <<0>>)
       ]_vars

\* the 3600th tick has brought the counter to the ceiling
C19_Witness ==
  /\ pc = "dl_kill"
  /\ elapsed = <<10800>>
  /\ Ticks = 3600

\* ---------------------------------------------------------------------- C20
\* open(log_file, 'w') has raised: an exception inside download_model after
\* the destination was created and before the log was opened
OpenFailed == exc = "Exception" /\ dest_created /\ ~log_opened /\ dl_result = <<>>

\* C20: download_model creates the destination directory and nothing in the
\* run creates the logs directory; while that directory is absent the log is
\* never opened and no fetch process is started; a failed open of the log
\* propagates as an exception to main, the process exits with code 1, and
\* nothing is spawned and launch_training is not entered
C20_LogOpenFailure ==
  /\ [][logs_dir' = logs_dir]_vars
  /\ [](logs_dir = "absent" => (~log_opened /\ spawn_count = 0 /\ child = "none"))
  /\ [](log_opened => (dest_created /\ logs_dir = "present"))
  /\ [](OpenFailed =>
          /\ pc \in {"raised", "exited"}
          /\ cause = "exception"
          /\ pc = "exited" => exit_code = <<1>>
          /\ spawn_count = 0
          /\ child = "none"
          /\ dl_outcome = "none"
          /\ ~lt_entered
          /\ cwd = "start"
          /\ pip_runs = 0
          /\ train = NoTrain)
  /\ [][(pc = "dl_open" /\ pc' # pc) =>
          /\ dest_created
          /\ \/ pc' = "dl_popen" /\ log_opened' /\ logs_dir = "present"
             \/ pc' = "raised" /\ exc' = "Exception" /\ ~log_opened'
                /\ spawn_count' = 0 /\ child' = "none"
          /\ logs_dir = "absent" => pc' = "raised"]_vars

\* the destination exists, the logs directory does not: the process exited
\* with 1 and no fetch process was ever started
C20_Witness ==
  /\ pc = "exited"
  /\ OpenFailed
  /\ logs_dir = "absent"
  /\ exit_code = <<1>>
  /\ spawn_count = 0
  /\ ~lt_entered

====
